---- MODULE Spec2Model ----
(***************************************************************************)
(* MindCanvas backend: the vector store (supabase_db.py), the ingestion    *)
(* pipeline (main.py) and the RAG chatbot (rag_chatbot.py).                *)
(*                                                                         *)
(* Numbers.  Similarities are rationals [num, den] (den > 0) until they    *)
(* are rounded; a rounded similarity is an integer number of thousandths   *)
(* (round(x, 3)).  Thresholds are integers in ten-thousandths, confidences *)
(* integers in millionths.                                                 *)
(*                                                                         *)
(* Vectors.  An embedding is [dim, x, y]: a list of dim floats whose first *)
(* two components are x and y and whose other components are 0.  The       *)
(* vectors used have integral norms, so the arithmetic below is exact.     *)
(***************************************************************************)
EXTENDS Integers, Sequences, FiniteSets, TLC

VARIABLES
    store,            \* the rows of table processed_content, in the store's physical order
    next_id,          \* the next value of the id sequence (BIGSERIAL)
    url_unique,       \* the schema in use declares url UNIQUE (setup.py) or not (supabase_db.py)
    openai_embedder,  \* SimpleVectorDB.openai_embedder is set (an API key was given)
    call,             \* the search call in progress
    result,           \* what the search call answered
    ingest,           \* the process_urls requests in progress
    turns,            \* the chat turns in progress (process_chat_request)
    conversation_memories,  \* RAGChatbot.conversation_memories: id -> messages
    now,              \* the clock, in seconds
    served            \* how many chat turns have begun

deployVars == <<url_unique, openai_embedder>>

storeVars == <<store, next_id>>

searchVars == <<call, result>>

chatVars == <<turns, conversation_memories, now, served>>

vars == <<store, next_id, url_unique, openai_embedder, call, result, ingest,
          turns, conversation_memories, now, served>>

-----------------------------------------------------------------------------
(* Bounds of the model *)

MaxRows == 3
MaxK == 2
MaxRequests == 2
MaxItems == 2
MaxUrls == 2
MaxStored == 4
MaxTurns == 2
MaxContextItems == 4

-----------------------------------------------------------------------------
(* Program constants *)

target_dimension == 1536
st_dimension == 384
ThresholdScale == 10 * 1000
default_threshold == 3000
related_threshold == 3000
default_quality == 5
no_context_confidence == 300000
no_context_fallback_confidence == 100000
rag_fallback_confidence == 200000
min_confidence == 100000
max_confidence == 950000
fallback_titles == 3

-----------------------------------------------------------------------------
(* Vectors and cosine similarity *)

Vec(d, a, b) == [dim |-> d, x |-> a, y |-> b]

NoEmbedding == Vec(0, 0, 0)

ZeroVector(d) == Vec(d, 0, 0)

RECURSIVE ISqrtFrom(_, _)
ISqrtFrom(n, r) == IF (r + 1) * (r + 1) > n THEN r ELSE ISqrtFrom(n, r + 1)

Norm(v) == ISqrtFrom(v.x * v.x + v.y * v.y, 0)

Dot(a, b) == a.x * b.x + a.y * b.y

Rat(n, d) == [num |-> n, den |-> d]

cosine_similarity_unguarded(a, b) ==
    IF a.dim # b.dim THEN Rat(0, 1)
    ELSE IF a.dim = 0 THEN Rat(0, 1)
    ELSE IF Norm(a) = 0 \/ Norm(b) = 0 THEN Rat(1, 1)
    ELSE Rat(Dot(a, b), Norm(a) * Norm(b))

cosine_similarity(a, b) ==
    IF a.dim # b.dim THEN Rat(0, 1)
    ELSE IF a.dim = 0 THEN Rat(0, 1)
    ELSE IF Norm(a) = 0 \/ Norm(b) = 0 THEN Rat(0, 1)
    ELSE Rat(Dot(a, b), Norm(a) * Norm(b))

(* round(x, 3): nearest thousandth, ties to even *)
Round3(r) ==
    LET n == r.num * 1000
        q == n \div r.den
        m == n % r.den
    IN  IF 2 * m < r.den THEN q
        ELSE IF 2 * m > r.den THEN q + 1
        ELSE IF q % 2 = 0 THEN q ELSE q + 1

(* similarity >= threshold and similarity > threshold, threshold in 1/ThresholdScale *)
AtLeast(r, threshold) == r.num * ThresholdScale >= threshold * r.den

Above(r, threshold) == r.num * ThresholdScale > threshold * r.den

-----------------------------------------------------------------------------
(* Sequences *)

Min(a, b) == IF a <= b THEN a ELSE b

(* s[:n]: the first n items, and for a negative n all but the last -n *)
Take(s, n) ==
    IF n >= 0 THEN SubSeq(s, 1, Min(n, Len(s)))
    ELSE IF Len(s) + n > 0 THEN SubSeq(s, 1, Len(s) + n)
    ELSE <<>>

Reverse(s) == [i \in 1..Len(s) |-> s[Len(s) + 1 - i]]

RECURSIVE Filter(_, _)
Filter(s, keep) ==
    IF s = <<>> THEN <<>>
    ELSE IF Head(s) \in keep THEN <<Head(s)>> \o Filter(Tail(s), keep)
    ELSE Filter(Tail(s), keep)

Range(s) == {s[i] : i \in 1..Len(s)}

(* results.sort(key=lambda x: x['similarity'], reverse=True): a stable descending *)
(* sort on the rounded similarity; equal keys keep their order                    *)
SortBySimilarityDesc(s) ==
    LET n == Len(s)
        Rank(i) == 1 + Cardinality({j \in 1..n :
                        \/ s[j].similarity > s[i].similarity
                        \/ (s[j].similarity = s[i].similarity /\ j < i)})
    IN  [p \in 1..n |-> s[CHOOSE i \in 1..n : Rank(i) = p]]

-----------------------------------------------------------------------------
(* The embedding provider *)

Raises == Vec(0 - 1, 0, 0)

(* what openai_embedder.embed_query hands back: a vector, or it raises *)
ProviderReplies ==
    {Raises, Vec(target_dimension, 3, 4), Vec(target_dimension, 4, 3), Vec(st_dimension, 3, 4)}

generate_embedding(embedder, reply) ==
    IF embedder
    THEN IF reply = Raises THEN ZeroVector(target_dimension)
         ELSE IF reply.dim # target_dimension THEN ZeroVector(target_dimension)
         ELSE reply
    ELSE ZeroVector(target_dimension)

-----------------------------------------------------------------------------
(* The table processed_content and the SQL function match_processed_content *)

ScanOrders == {"forward", "backward"}

(* a SELECT without ORDER BY hands the rows back in an order of the store's choosing *)
Scan(rows, order) == IF order = "forward" THEN rows ELSE Reverse(rows)

HasEmbedding(row) == row.embedding # NoEmbedding

RatGreater(a, b) == a.num * b.den > b.num * a.den

MatchRow(row, q) ==
    [id |-> row.id, url |-> row.url, title |-> row.title,
     quality_score |-> row.quality_score,
     similarity |-> cosine_similarity(row.embedding, q)]

(* pgvector refuses to compare vectors of different dimensions.  For a zero   *)
(* vector the model gives the server-side similarity the value 0, the value  *)
(* the client-side function gives it.                                        *)
RpcRaises(rows, q) == \E i \in 1..Len(rows) : HasEmbedding(rows[i]) /\ rows[i].embedding.dim # q.dim

(* ORDER BY similarity DESC; rows of equal similarity come in scan order *)
OrderBySimilarityDesc(s) ==
    LET n == Len(s)
        Rank(i) == 1 + Cardinality({j \in 1..n :
                        \/ RatGreater(s[j].similarity, s[i].similarity)
                        \/ (~RatGreater(s[i].similarity, s[j].similarity) /\ j < i)})
    IN  [p \in 1..n |-> s[CHOOSE i \in 1..n : Rank(i) = p]]

match_processed_content(rows, query_embedding, match_count, match_threshold) ==
    LET matched == Filter(rows, {r \in Range(rows) :
                        /\ HasEmbedding(r)
                        /\ Above(cosine_similarity(r.embedding, query_embedding), match_threshold)})
        selected == [i \in 1..Len(matched) |-> MatchRow(matched[i], query_embedding)]
    IN  Take(OrderBySimilarityDesc(selected), match_count)

-----------------------------------------------------------------------------
(* SimpleVectorDB.semantic_search and SimpleVectorDB.get_related_content *)

Returned(p, rs) == [outcome |-> "returned", path |-> p, rows |-> rs]

Raised(p) == [outcome |-> "raised", path |-> p, rows |-> <<>>]

SearchRow(m, sim) ==
    [id |-> m.id, url |-> m.url, title |-> m.title,
     quality_score |-> m.quality_score, similarity |-> sim]

RelatedRow(m, sim) ==
    [id |-> m.id, url |-> m.url, title |-> m.title, similarity |-> sim]

(* the result dicts built from the rows the RPC returned *)
SearchRows(data) == [i \in 1..Len(data) |-> SearchRow(data[i], Round3(data[i].similarity))]

RelatedRows(data) == [i \in 1..Len(data) |-> RelatedRow(data[i], Round3(data[i].similarity))]

ValidRowEmbedding_anylength(e) == e # NoEmbedding

(* the manual search skips a row whose embedding is missing or not 1536 long *)
ValidRowEmbedding(e) == e # NoEmbedding /\ e.dim = target_dimension

OuterExcept_reraising(p) == Raised(p)

(* the except clause that ends semantic_search and get_related_content *)
OuterExcept(p) == Returned(p, <<>>)

ManualSearch_untruncated(rows, query_embedding, limit, threshold) ==
    LET kept == Filter(rows, {r \in Range(rows) :
                        /\ ValidRowEmbedding(r.embedding)
                        /\ AtLeast(cosine_similarity(query_embedding, r.embedding), threshold)})
        results == [i \in 1..Len(kept) |->
                        SearchRow(kept[i], Round3(cosine_similarity(query_embedding, kept[i].embedding)))]
    IN  SortBySimilarityDesc(results)

(* the manual vector search of semantic_search, from the fetched rows on *)
ManualSearch(rows, query_embedding, limit, threshold) ==
    LET kept == Filter(rows, {r \in Range(rows) :
                        /\ ValidRowEmbedding(r.embedding)
                        /\ AtLeast(cosine_similarity(query_embedding, r.embedding), threshold)})
        results == [i \in 1..Len(kept) |->
                        SearchRow(kept[i], Round3(cosine_similarity(query_embedding, kept[i].embedding)))]
    IN  Take(SortBySimilarityDesc(results), limit)

semantic_search(rows, embedder, reply, limit, threshold, rpc_fails, fetch_fails, order) ==
    LET query_embedding == generate_embedding(embedder, reply)
        scanned == Scan(rows, order)
        data == match_processed_content(scanned, query_embedding, limit, threshold)
        fetched == Filter(scanned, {r \in Range(scanned) : HasEmbedding(r)})
    IN  IF query_embedding = NoEmbedding \/ query_embedding.dim # target_dimension
        THEN Returned("aborted", <<>>)
        ELSE IF ~(rpc_fails \/ RpcRaises(scanned, query_embedding))
        THEN IF data # <<>>
             THEN Returned("rpc", SearchRows(data))
             ELSE Returned("rpc_empty", <<>>)
        ELSE IF fetch_fails THEN OuterExcept("both_failed")
        ELSE IF fetched = <<>> THEN Returned("fallback_empty", <<>>)
        ELSE Returned("fallback", ManualSearch(fetched, query_embedding, limit, threshold))

(* the manual search of get_related_content, from the fetched rows on *)
ManualRelated(rows, source_embedding, limit) ==
    LET kept == Filter(rows, {r \in Range(rows) :
                        /\ HasEmbedding(r)
                        /\ Above(cosine_similarity(source_embedding, r.embedding), related_threshold)})
        results == [i \in 1..Len(kept) |->
                        RelatedRow(kept[i], Round3(cosine_similarity(source_embedding, kept[i].embedding)))]
    IN  Take(SortBySimilarityDesc(results), limit)

get_related_content(rows, content_id, limit, source_fails, rpc_fails, fetch_fails, order) ==
    LET scanned == Scan(rows, order)
        source == Filter(scanned, {r \in Range(scanned) : r.id = content_id})
        source_embedding == source[1].embedding
        data == match_processed_content(scanned, source_embedding, limit + 1, related_threshold)
        others == Filter(data, {m \in Range(data) : m.id # content_id})
        fetched == Filter(scanned, {r \in Range(scanned) : r.id # content_id})
    IN  IF source_fails THEN OuterExcept("source_failed")
        ELSE IF source = <<>> \/ ~HasEmbedding(source[1]) THEN Returned("no_source", <<>>)
        ELSE IF ~(rpc_fails \/ RpcRaises(scanned, source_embedding)) /\ data # <<>>
        THEN Returned("rpc", Take(RelatedRows(others), limit))
        ELSE IF fetch_fails THEN OuterExcept("both_failed")
        ELSE Returned("fallback", ManualRelated(fetched, source_embedding, limit))

-----------------------------------------------------------------------------
(* The search engine: one call at a time over a corpus *)

Thresholds == {0 - 5000, 0, default_threshold, 9600, 9692}

(* <<quality_score, embedding>> of a stored row *)
RowValues ==
    {<<3, Vec(target_dimension, 3, 4)>>, <<8, Vec(target_dimension, 3, 4)>>,
     <<3, Vec(target_dimension, 5, 12)>>, <<8, ZeroVector(target_dimension)>>,
     <<3, NoEmbedding>>, <<8, Vec(st_dimension, 3, 4)>>,
     <<3, Vec(target_dimension, 3, 0 - 4)>>}

Row(i, q, e) == [id |-> i, url |-> i, title |-> i, quality_score |-> q, embedding |-> e]

Corpora ==
    UNION {{[i \in 1..n |-> Row(i, f[i][1], f[i][2])] :
                f \in [1..n -> RowValues]} : n \in 0..MaxRows}

NoCall == [op |-> "none"]

NoResult == [outcome |-> "none", path |-> "none", rows |-> <<>>]

Idle == [pc |-> "idle"]

(* the chat requests the event loop runs side by side *)
ChatTasks == {1, 2}

NoChat ==
    /\ turns = [p \in ChatTasks |-> Idle]
    /\ conversation_memories = <<>>
    /\ now = 0
    /\ served = 0

InitSearch ==
    /\ store \in Corpora
    /\ next_id = Len(store) + 1
    /\ ingest = [p \in 1..MaxRequests |-> Idle]
    /\ NoChat
    /\ url_unique = FALSE
    /\ openai_embedder \in BOOLEAN
    /\ call = NoCall
    /\ result = NoResult

SemanticSearch ==
    /\ call = NoCall
    /\ \E reply \in ProviderReplies, limit \in 0..MaxK, threshold \in Thresholds,
          rpc_fails \in BOOLEAN, fetch_fails \in BOOLEAN, order \in ScanOrders :
          /\ call' = [op |-> "semantic_search", reply |-> reply, limit |-> limit,
                      threshold |-> threshold, rpc_fails |-> rpc_fails,
                      fetch_fails |-> fetch_fails, order |-> order]
          /\ result' = semantic_search(store, openai_embedder, reply, limit, threshold,
                                       rpc_fails, fetch_fails, order)
    /\ UNCHANGED <<storeVars, deployVars, ingest, chatVars>>

GetRelatedContent ==
    /\ call = NoCall
    /\ \E content_id \in 1..(MaxRows + 1), limit \in (0 - 1)..MaxK, source_fails \in BOOLEAN,
          rpc_fails \in BOOLEAN, fetch_fails \in BOOLEAN, order \in ScanOrders :
          /\ call' = [op |-> "get_related_content", content_id |-> content_id, limit |-> limit,
                      source_fails |-> source_fails, rpc_fails |-> rpc_fails,
                      fetch_fails |-> fetch_fails, order |-> order]
          /\ result' = get_related_content(store, content_id, limit, source_fails,
                                           rpc_fails, fetch_fails, order)
    /\ UNCHANGED <<storeVars, deployVars, ingest, chatVars>>

(* the caller takes the answer; the next call may begin *)
SearchReturn ==
    /\ call # NoCall
    /\ call' = NoCall
    /\ result' = NoResult
    /\ UNCHANGED <<storeVars, deployVars, ingest, chatVars>>

NextSearch == SemanticSearch \/ GetRelatedContent \/ SearchReturn

SpecSearch == InitSearch /\ [][NextSearch]_vars

-----------------------------------------------------------------------------
(* Ingestion: process_urls and SimpleVectorDB.store_content *)

(* table.upsert(data) names no on_conflict column and data carries no id, so  *)
(* the row is inserted under a fresh id; the insert raises when the schema    *)
(* declares url UNIQUE and the url is taken, or when the store is unreachable *)
UpsertRaises(rows, url, unique, store_fails) ==
    store_fails \/ (unique /\ \E i \in 1..Len(rows) : rows[i].url = url)

Stored(ok, rows, nid) == [success |-> ok, store |-> rows, next_id |-> nid]

store_content(rows, nid, item, embedder, reply, unique, store_fails) ==
    LET embedding == IF item.embedding = NoEmbedding
                     THEN generate_embedding(embedder, reply)
                     ELSE item.embedding
        row == [id |-> nid, url |-> item.url, title |-> item.title,
                quality_score |-> item.quality_score, embedding |-> embedding]
    IN  IF UpsertRaises(rows, item.url, unique, store_fails)
        THEN Stored(FALSE, rows, nid)
        ELSE Stored(TRUE, Append(rows, row), nid + 1)

Urls == 1..MaxUrls

ItemLists == UNION {[1..n -> Urls] : n \in 1..MaxItems}

UrlStored(rows, url) == \E i \in 1..Len(rows) : rows[i].url = url

(* items a request has still to store *)
Pending(r) ==
    IF r.pc = "extract" THEN Len(r.new_items)
    ELSE IF r.pc = "store" THEN Len(r.content_items)
    ELSE 0

RECURSIVE SumPending(_)
SumPending(p) == IF p = 0 THEN 0 ELSE Pending(ingest[p]) + SumPending(p - 1)

Response(processed, total, new) == [processed |-> processed, total |-> total, new |-> new]

(* process_urls up to its first await: the existence check of every url *)
ProcessUrlsCheck(p) ==
    /\ ingest[p].pc = "idle"
    /\ \E items \in ItemLists : \E select_fails \in BOOLEAN :
          LET new_items == Filter(items, {u \in Urls : select_fails \/ ~UrlStored(store, u)})
              existing_count == Len(items) - Len(new_items)
          IN  /\ Len(store) + SumPending(MaxRequests) + Len(new_items) <= MaxStored
              /\ ingest' = [ingest EXCEPT ![p] =
                    IF new_items = <<>>
                    THEN [pc |-> "done",
                          response |-> Response(existing_count, Len(items), 0)]
                    ELSE [pc |-> "extract", total |-> Len(items),
                          existing_count |-> existing_count, new_items |-> new_items]]
    /\ UNCHANGED <<storeVars, deployVars, searchVars, chatVars>>

(* fetch_html, extract_content and llm_processor.process_content: a page that *)
(* cannot be fetched or yields no content is dropped                          *)
ProcessUrlsExtract(p) ==
    /\ ingest[p].pc = "extract"
    /\ \E fetched \in SUBSET Urls :
          LET r == ingest[p]
              content_items == Filter(r.new_items, fetched)
          IN  ingest' = [ingest EXCEPT ![p] =
                    IF content_items = <<>>
                    THEN [pc |-> "done",
                          response |-> Response(r.existing_count, r.total, 0)]
                    ELSE [pc |-> "store", total |-> r.total,
                          existing_count |-> r.existing_count,
                          content_items |-> content_items, stored_count |-> 0]]
    /\ UNCHANGED <<storeVars, deployVars, searchVars, chatVars>>

(* one turn of the storing loop: await db.store_content(content_item) *)
ProcessUrlsStore(p) ==
    /\ ingest[p].pc = "store"
    /\ \E reply \in {Raises, Vec(target_dimension, 3, 4)}, store_fails \in BOOLEAN :
          LET r == ingest[p]
              url == Head(r.content_items)
              item == [url |-> url, title |-> url, quality_score |-> default_quality,
                       embedding |-> NoEmbedding]
              s == store_content(store, next_id, item, openai_embedder, reply,
                                 url_unique, store_fails)
              stored_count == IF s.success THEN r.stored_count + 1 ELSE r.stored_count
          IN  /\ store' = s.store
              /\ next_id' = s.next_id
              /\ ingest' = [ingest EXCEPT ![p] =
                    IF Tail(r.content_items) = <<>>
                    THEN [pc |-> "done",
                          response |-> Response(stored_count + r.existing_count,
                                                r.total, stored_count)]
                    ELSE [r EXCEPT !.content_items = Tail(r.content_items),
                                   !.stored_count = stored_count]]
    /\ UNCHANGED <<deployVars, searchVars, chatVars>>

ProcessUrlsReturn(p) ==
    /\ ingest[p].pc = "done"
    /\ ingest' = [ingest EXCEPT ![p] = Idle]
    /\ UNCHANGED <<storeVars, deployVars, searchVars, chatVars>>

InitIngest ==
    /\ store = <<>>
    /\ next_id = 1
    /\ url_unique \in BOOLEAN
    /\ openai_embedder \in BOOLEAN
    /\ call = NoCall
    /\ result = NoResult
    /\ ingest = [p \in 1..MaxRequests |-> Idle]
    /\ NoChat

NextIngest ==
    \E p \in 1..MaxRequests :
        \/ ProcessUrlsCheck(p)
        \/ ProcessUrlsExtract(p)
        \/ ProcessUrlsStore(p)
        \/ ProcessUrlsReturn(p)

SpecIngest == InitIngest /\ [][NextIngest]_vars

(* C9: the store holds at most one item per url: storing an item whose url *)
(* is already present does not add an item.                                *)
C9_OneItemPerUrl ==
    \A i, j \in 1..Len(store) : store[i].url = store[j].url => i = j

-----------------------------------------------------------------------------
(* Claims about the search engine, checked under SpecSearch *)

IsSearch == call.op = "semantic_search"

IsRelated == call.op = "get_related_content"

StoreRow(id) == CHOOSE r \in Range(store) : r.id = id

QueryEmbedding == generate_embedding(openai_embedder, call.reply)

SourceEmbedding == StoreRow(call.content_id).embedding

ProviderUnavailable ==
    ~openai_embedder \/ call.reply = Raises \/ call.reply.dim # target_dimension

(* what strategy 1 answers for the call in hand *)
ServerSideAnswer ==
    IF IsSearch
    THEN SearchRows(match_processed_content(Scan(store, call.order), QueryEmbedding,
                                            call.limit, call.threshold))
    ELSE LET data == match_processed_content(Scan(store, call.order), SourceEmbedding,
                                             call.limit + 1, related_threshold)
             others == Filter(data, {m \in Range(data) : m.id # call.content_id})
         IN  Take(RelatedRows(others), call.limit)

RanFallback == result.path \in {"fallback", "fallback_empty"}

(* the corpus and the vector are such that the store's operator has an answer: *)
(* equal dimensions and no zero vector                                         *)
ServerSideDefined ==
    LET q == IF IsSearch THEN QueryEmbedding ELSE SourceEmbedding
    IN  /\ ~RpcRaises(store, q)
        /\ Norm(q) # 0
        /\ \A r \in Range(store) : HasEmbedding(r) => Norm(r.embedding) # 0

C3_FallbackSameAsServerSide ==
    (RanFallback /\ ServerSideDefined) => result.rows = ServerSideAnswer

(* C4: when the RPC and the full scan both fail, semantic_search and *)
(* get_related_content return an empty list and raise nothing.        *)
C4_BothFailReturnsEmpty ==
    (call # NoCall /\ call.rpc_fails /\ call.fetch_fails)
        => (result.outcome = "returned" /\ result.rows = <<>>)

C4_Witness ==
    /\ IsSearch /\ call.rpc_fails /\ call.fetch_fails
    /\ result.path = "both_failed"
    /\ \E i \in 1..Len(store) : ValidRowEmbedding(store[i].embedding)

(* C5: when even fetching the candidate rows fails, the caller gets a hard *)
(* failure it can tell from the valid answer "no matches" (an empty list). *)
C5_UnreachableStoreIsHardFailure ==
    result.path \in {"both_failed", "source_failed"}
        => ~(result.outcome = "returned" /\ result.rows = <<>>)

(* C6: with the embedding provider unavailable no zero vector is handed on: *)
(* semantic_search does not run a search with it.                           *)
C6_NoSearchWithZeroVector ==
    (IsSearch /\ ProviderUnavailable)
        => (QueryEmbedding # ZeroVector(target_dimension) /\ result.path = "aborted")

(* C7: in the full scan a row without embedding, or with an embedding whose   *)
(* length differs from the query/source vector's, is never in the result, and *)
(* the scan goes on over the remaining rows without raising.                  *)
C7_MismatchedRowsExcluded ==
    LET q == IF IsSearch THEN QueryEmbedding ELSE SourceEmbedding
        threshold == IF IsSearch THEN call.threshold ELSE related_threshold
        Meets(r) == IF IsSearch
                    THEN AtLeast(cosine_similarity(q, r.embedding), threshold)
                    ELSE Above(cosine_similarity(q, r.embedding), threshold)
        Candidate(r) == /\ r.embedding # NoEmbedding
                        /\ r.embedding.dim = q.dim
                        /\ IsRelated => r.id # call.content_id
        ids == {result.rows[i].id : i \in 1..Len(result.rows)}
    IN  result.path = "fallback" =>
            /\ result.outcome = "returned"
            /\ \A id \in ids : Candidate(StoreRow(id))
            /\ Len(result.rows) < call.limit =>
                  \A r \in Range(store) : (Candidate(r) /\ Meets(r)) => r.id \in ids

C7_Witness ==
    /\ IsSearch /\ result.path = "fallback" /\ call.order = "forward"
    /\ Len(store) = 3
    /\ store[1].embedding = NoEmbedding
    /\ store[2].embedding.dim = st_dimension
    /\ Len(result.rows) = 1 /\ result.rows[1].id = 3

(* C8: the full scan's result is ordered by descending similarity, equal  *)
(* similarities by higher quality_score, then by lower id, whatever order *)
(* the store handed the rows back in.                                     *)
C8_TiesByQualityThenId ==
    result.path = "fallback" =>
        \A i, j \in 1..Len(result.rows) : i < j =>
            LET a == result.rows[i]
                b == result.rows[j]
                qa == StoreRow(a.id).quality_score
                qb == StoreRow(b.id).quality_score
            IN  \/ a.similarity > b.similarity
                \/ /\ a.similarity = b.similarity
                   /\ (qa > qb \/ (qa = qb /\ a.id < b.id))

-----------------------------------------------------------------------------
(* The RAG chatbot: RAGChatbot.process_chat_request *)

Max(a, b) == IF a >= b THEN a ELSE b

RECURSIVE SumOver(_, _)
SumOver(s, field) == IF s = <<>> THEN 0 ELSE Head(s)[field] + SumOver(Tail(s), field)

Fails == [kind |-> "fails"]

(* what llm.ainvoke hands back: a text of some length, with or without the *)
(* marker "[Source:", or it raises                                         *)
LlmReplies ==
    {Fails, [kind |-> "text", length |-> 100, cites |-> FALSE],
            [kind |-> "text", length |-> 600, cites |-> TRUE]}

LlmText(query, reply) ==
    [kind |-> "llm", query |-> query, titles |-> <<>>,
     length |-> reply.length, cites |-> reply.cites]

(* in millionths; similarity is in thousandths, quality_score is 1..10 *)
calculate_confidence(context_items, response) ==
    IF context_items = <<>> THEN no_context_confidence
    ELSE LET n == Len(context_items)
             avg_similarity == (SumOver(context_items, "similarity") * 1000) \div n
             avg_quality == (SumOver(context_items, "quality_score") * 1000000) \div n
             citation_bonus == IF response.cites THEN 100000 ELSE 0
             length_factor == Min(1000000, (response.length * 1000000) \div 500)
             confidence == (avg_similarity * 4) \div 10 + avg_quality \div 10
                           + (length_factor * 3) \div 10 + citation_bonus
         IN  Min(max_confidence, Max(min_confidence, confidence))

generate_fallback_response_all(query, context_items) ==
    IF context_items # <<>>
    THEN [kind |-> "fallback_sources", query |-> query,
          titles |-> [i \in 1..Len(context_items) |-> context_items[i].title]]
    ELSE [kind |-> "fallback_generic", query |-> query, titles |-> <<>>]

generate_fallback_response(query, context_items) ==
    IF context_items # <<>>
    THEN [kind |-> "fallback_sources", query |-> query,
          titles |-> [i \in 1..Min(Len(context_items), fallback_titles) |-> context_items[i].title]]
    ELSE [kind |-> "fallback_generic", query |-> query, titles |-> <<>>]

Generated(text, confidence, added) ==
    [response |-> text, confidence |-> confidence, added |-> added]

HumanMessage(content) == [role |-> "human", content |-> content]

AIMessage(content) == [role |-> "ai", content |-> content]

generate_response_overconfident(query, context_items, reply) ==
    IF context_items = <<>>
    THEN IF reply # Fails
         THEN Generated(LlmText(query, reply), max_confidence, <<>>)
         ELSE Generated(generate_fallback_response(query, <<>>),
                        max_confidence, <<>>)
    ELSE IF reply # Fails
         THEN Generated(LlmText(query, reply),
                        calculate_confidence(context_items, LlmText(query, reply)),
                        <<HumanMessage(query), AIMessage(LlmText(query, reply))>>)
         ELSE Generated(generate_fallback_response(query, context_items),
                        max_confidence, <<>>)

generate_response_unpaired(query, context_items, reply) ==
    IF context_items = <<>>
    THEN IF reply # Fails
         THEN Generated(LlmText(query, reply), no_context_confidence, <<>>)
         ELSE Generated(generate_fallback_response(query, <<>>),
                        no_context_fallback_confidence, <<>>)
    ELSE IF reply # Fails
         THEN Generated(LlmText(query, reply),
                        calculate_confidence(context_items, LlmText(query, reply)),
                        <<HumanMessage(query)>>)
         ELSE Generated(generate_fallback_response(query, context_items),
                        rag_fallback_confidence, <<>>)

(* _generate_response: the text, the confidence and the messages added to memory *)
generate_response(query, context_items, reply) ==
    IF context_items = <<>>
    THEN IF reply # Fails
         THEN Generated(LlmText(query, reply), no_context_confidence, <<>>)
         ELSE Generated(generate_fallback_response(query, <<>>),
                        no_context_fallback_confidence, <<>>)
    ELSE IF reply # Fails
         THEN Generated(LlmText(query, reply),
                        calculate_confidence(context_items, LlmText(query, reply)),
                        <<HumanMessage(query), AIMessage(LlmText(query, reply))>>)
         ELSE Generated(generate_fallback_response(query, context_items),
                        rag_fallback_confidence, <<>>)

format_source(item) ==
    [title |-> item.title, url |-> item.url, quality_score |-> item.quality_score,
     similarity |-> item.similarity]

(* _retrieve_relevant_context: the search, then one content fetch per result; *)
(* an exception anywhere yields no context                                    *)
retrieve_relevant_context(rows, embedder, reply, max_items, threshold, rpc_fails, fetch_fails, order, content_fails) ==
    LET results == semantic_search(rows, embedder, reply, max_items, threshold,
                                   rpc_fails, fetch_fails, order).rows
    IN  IF results = <<>> THEN <<>>
        ELSE IF content_fails THEN <<>>
        ELSE results

Messages == {"q1"}

EmbeddingOf(message) ==
    IF message = "q1" THEN Vec(target_dimension, 3, 4) ELSE Vec(target_dimension, 4, 3)

(* a conversation_history of n exchanges: a user message and its answer, n times *)
RECURSIVE Exchanges(_)
Exchanges(n) ==
    IF n = 0 THEN <<>>
    ELSE <<[role |-> "user", content |-> "h"],
           [role |-> "assistant", content |-> "a"]>> \o Exchanges(n - 1)

(* no history, or seven exchanges with a system message among them *)
Histories ==
    {<<>>, <<[role |-> "user", content |-> "h"], [role |-> "system", content |-> "s"],
             [role |-> "assistant", content |-> "a"]>> \o Exchanges(6)}

NoId == [name |-> "", at |-> 0]

GivenIds == {[name |-> "c1", at |-> 0]}

(* f"chat_{int(datetime.now().timestamp())}" *)
GeneratedId(t) == [name |-> "chat", at |-> t]

ChatRequests ==
    [message : Messages, conversation_history : Histories, use_rag : BOOLEAN,
     max_context_items : {1, MaxContextItems}, similarity_threshold : {default_threshold},
     conversation_id : GivenIds \cup {NoId}]

RECURSIVE HistoryMessages_with_system(_)
HistoryMessages_with_system(h) ==
    IF h = <<>> THEN <<>>
    ELSE IF Head(h).role = "user"
         THEN <<HumanMessage(Head(h).content)>> \o HistoryMessages_with_system(Tail(h))
    ELSE <<AIMessage(Head(h).content)>> \o HistoryMessages_with_system(Tail(h))

(* the history messages of a request as memory messages; system messages are dropped *)
RECURSIVE HistoryMessages(_)
HistoryMessages(h) ==
    IF h = <<>> THEN <<>>
    ELSE IF Head(h).role = "user"
         THEN <<HumanMessage(Head(h).content)>> \o HistoryMessages(Tail(h))
    ELSE IF Head(h).role = "assistant"
         THEN <<AIMessage(Head(h).content)>> \o HistoryMessages(Tail(h))
    ELSE HistoryMessages(Tail(h))

MemoryOf(id) == IF id \in DOMAIN conversation_memories THEN conversation_memories[id] ELSE <<>>

SetMemory(id, messages) ==
    [c \in DOMAIN conversation_memories \cup {id} |->
        IF c = id THEN messages ELSE conversation_memories[c]]

(* self.llm: the one chat model __init__ makes; groq_key is accepted and unused *)
llm == "gpt-3.5-turbo"

(* one llm.ainvoke(messages): the system prompt, the history, then the question *)
(* with the titles of the context it is asked about                             *)
Invocation(provider, query, context_items, chat_history) ==
    [provider |-> provider,
     system |-> IF context_items = <<>> THEN "system_prompt" ELSE "rag_system_prompt",
     chat_history |-> chat_history,
     context |-> [i \in 1..Len(context_items) |-> context_items[i].title],
     question |-> query]

(* a turn waiting for the provider: what _generate_response holds across the await *)
Awaiting(query, id, history, context_items) ==
    [pc |-> "generate", query |-> query, conversation_id |-> id,
     conversation_history |-> history,
     context_items |-> context_items,
     sources |-> [i \in 1..Len(context_items) |-> format_source(context_items[i])],
     prompt_history |-> IF context_items = <<>> THEN <<>> ELSE MemoryOf(id)]

(* process_chat_request up to its first await: the memory of the conversation *)
(* is found or made, and replaced by the request's history when it has one    *)
ChatReceive(p) ==
    /\ turns[p].pc = "idle"
    /\ served < MaxTurns
    /\ \E request \in ChatRequests :
          LET id == IF request.conversation_id # NoId
                    THEN request.conversation_id ELSE GeneratedId(now)
              messages == IF request.conversation_history # <<>>
                          THEN HistoryMessages(request.conversation_history)
                          ELSE MemoryOf(id)
          IN  /\ conversation_memories' = SetMemory(id, messages)
              /\ turns' = [turns EXCEPT ![p] =
                    IF request.use_rag
                    THEN [pc |-> "retrieve", query |-> request.message,
                          max_items |-> request.max_context_items,
                          threshold |-> request.similarity_threshold,
                          conversation_history |-> request.conversation_history,
                          conversation_id |-> id]
                    ELSE Awaiting(request.message, id, request.conversation_history,
                                  <<>>)]
    /\ served' = served + 1
    /\ UNCHANGED <<storeVars, deployVars, searchVars, ingest, now>>

(* await self._retrieve_relevant_context(...), then the prompt is built and *)
(* the provider is called                                                   *)
ChatRetrieve(p) ==
    /\ turns[p].pc = "retrieve"
    /\ \E provider_fails \in BOOLEAN, rpc_fails \in BOOLEAN, fetch_fails \in BOOLEAN,
          content_fails \in BOOLEAN :
          LET t == turns[p]
              reply == IF provider_fails THEN Raises ELSE EmbeddingOf(t.query)
              docs == retrieve_relevant_context(store, openai_embedder, reply,
                          t.max_items, t.threshold,
                          rpc_fails, fetch_fails, "forward", content_fails)
          IN  turns' = [turns EXCEPT ![p] =
                    Awaiting(t.query, t.conversation_id, t.conversation_history, docs)]
    /\ UNCHANGED <<storeVars, deployVars, searchVars, ingest,
                   conversation_memories, now, served>>

(* the provider answers or raises; the turn's response is made *)
ChatGenerate(p) ==
    /\ turns[p].pc = "generate"
    /\ \E reply \in LlmReplies :
          LET t == turns[p]
              g == generate_response(t.query, t.context_items, reply)
          IN  /\ conversation_memories' =
                    SetMemory(t.conversation_id, MemoryOf(t.conversation_id) \o g.added)
              /\ turns' = [turns EXCEPT ![p] =
                    [pc |-> "respond", query |-> t.query,
                     conversation_id |-> t.conversation_id,
                     context_items |-> t.context_items,
                     llm_failed |-> (reply = Fails),
                     invoked |-> <<Invocation(llm, t.query, t.context_items,
                                              t.prompt_history)>>,
                     response |-> [outcome |-> "returned", response |-> g.response,
                                   sources |-> t.sources, confidence |-> g.confidence,
                                   conversation_id |-> t.conversation_id]]]
    /\ UNCHANGED <<storeVars, deployVars, searchVars, ingest, now, served>>

(* the awaited dependency (embedding provider, store or chat model) never *)
(* answers: no await of the turn is wrapped in a timeout, so the coroutine *)
(* stays suspended at it                                                   *)
ChatSuspend(p) ==
    /\ turns[p].pc \in {"retrieve", "generate"}
    /\ turns' = [turns EXCEPT ![p].pc =
                    IF @ = "retrieve" THEN "retrieve_suspended" ELSE "generate_suspended"]
    /\ UNCHANGED <<storeVars, deployVars, searchVars, ingest,
                   conversation_memories, now, served>>

(* RESPOND: the ChatResponse goes back to the caller *)
ChatRespond(p) ==
    /\ turns[p].pc = "respond"
    /\ turns' = [turns EXCEPT ![p] = Idle]
    /\ UNCHANGED <<storeVars, deployVars, searchVars, ingest,
                   conversation_memories, now, served>>

(* the seconds of the clock that the model tells apart *)
Seconds == {0, 1}

Tick ==
    /\ now + 1 \in Seconds
    /\ now' = now + 1
    /\ UNCHANGED <<storeVars, deployVars, searchVars, ingest,
                   turns, conversation_memories, served>>

ChatCorpora ==
    {<<>>,
     <<Row(1, 3, Vec(target_dimension, 3, 4)), Row(2, 8, Vec(target_dimension, 5, 12)),
       Row(3, 8, Vec(target_dimension, 4, 3)), Row(4, 3, Vec(target_dimension, 3, 4)),
       Row(5, 8, ZeroVector(target_dimension))>>}

InitChat ==
    /\ store \in ChatCorpora
    /\ next_id = Len(store) + 1
    /\ url_unique = FALSE
    /\ openai_embedder = TRUE
    /\ call = NoCall
    /\ result = NoResult
    /\ ingest = [p \in 1..MaxRequests |-> Idle]
    /\ NoChat

NextChat ==
    \/ Tick
    \/ \E p \in ChatTasks :
          \/ ChatReceive(p)
          \/ ChatRetrieve(p)
          \/ ChatGenerate(p)
          \/ ChatSuspend(p)
          \/ ChatRespond(p)

SpecChat == InitChat /\ [][NextChat]_vars

(* the turns of one task, one after the other: a turn waits for its own *)
(* awaits only, never for another turn                                  *)
NextChatTurn ==
    \/ Tick
    \/ ChatReceive(1)
    \/ ChatRetrieve(1)
    \/ ChatGenerate(1)
    \/ ChatSuspend(1)
    \/ ChatRespond(1)

(* the chatbot over an empty knowledge base: every retrieval finds nothing *)
InitChatTurn ==
    /\ store = <<>>
    /\ next_id = 1
    /\ url_unique = FALSE
    /\ openai_embedder = TRUE
    /\ call = NoCall
    /\ result = NoResult
    /\ ingest = [p \in 1..MaxRequests |-> Idle]
    /\ NoChat

(* the event loop resumes a coroutine whose awaited call has answered or *)
(* raised, and runs it to its next await or to its return                *)
SpecChatFair ==
    /\ InitChatTurn
    /\ [][NextChatTurn]_vars
    /\ WF_vars(ChatRetrieve(1))
    /\ WF_vars(ChatGenerate(1))
    /\ WF_vars(ChatRespond(1))

-----------------------------------------------------------------------------
(* Claims about the chat turn, checked under SpecChat *)

Responding(p) == turns[p].pc = "respond"

TitlesOf(items) == [i \in 1..Len(items) |-> items[i].title]

(* C2: when the answer-generation provider fails the turn still ends in       *)
(* RESPOND, with the deterministic fallback text (at most 3 of the retrieved  *)
(* titles, or the generic message when there are none) and confidence at most *)
(* 0.3; the provider's error is neither returned nor raised.                  *)
C2_ProviderFailureFallsBack ==
    \A p \in ChatTasks : (Responding(p) /\ turns[p].llm_failed) =>
        LET t == turns[p]
            text == t.response.response
        IN  /\ t.response.outcome = "returned"
            /\ text.kind = IF t.context_items = <<>>
                           THEN "fallback_generic" ELSE "fallback_sources"
            /\ Len(text.titles) <= 3
            /\ text.titles = Take(TitlesOf(t.context_items), 3)
            /\ t.response.confidence <= 300000

C2_Witness ==
    \E p \in ChatTasks :
        /\ Responding(p) /\ turns[p].llm_failed
        /\ Len(turns[p].context_items) = 4
        /\ Len(turns[p].response.response.titles) = 3
        /\ turns[p].response.confidence = 200000

(* C10 as stated: every turn generated with no context returns confidence *)
(* exactly 0.3 and no sources.                                            *)
C10_NoContextIsExactly03 ==
    \A p \in ChatTasks : (Responding(p) /\ turns[p].context_items = <<>>) =>
        /\ turns[p].response.confidence = 300000
        /\ turns[p].response.sources = <<>>

(* C10 as amended: a turn generated with no context returns no sources, and *)
(* confidence exactly 0.3 when the provider answered, exactly 0.1 when the  *)
(* provider failed and the fallback text is returned.                       *)
C10_NoContextConfidence ==
    \A p \in ChatTasks : (Responding(p) /\ turns[p].context_items = <<>>) =>
        /\ turns[p].response.sources = <<>>
        /\ turns[p].response.confidence = IF turns[p].llm_failed THEN 100000 ELSE 300000

C10_Witness ==
    \E p \in ChatTasks :
        /\ Responding(p) /\ turns[p].context_items = <<>> /\ ~turns[p].llm_failed
        /\ store # <<>>
        /\ turns[p].response.response.kind = "llm"
        /\ turns[p].response.confidence = 300000

(* a turn that was answered by the provider from retrieved context *)
Grounded(p) ==
    Responding(p) /\ turns[p].context_items # <<>> /\ ~turns[p].llm_failed

(* C11: for a context-grounded answer the confidence is                       *)
(* avg(similarity)*0.4 + avg(quality normalized to 0..1)*0.1                  *)
(* + min(1, length/500)*0.3 + (0.1 if the citation marker is present),        *)
(* clamped to [0.1, 0.95]; the quality term is at most 0.1.                   *)
C11_ConfidenceFormula ==
    \A p \in ChatTasks : Grounded(p) =>
        LET items == turns[p].context_items
            text == turns[p].response.response
            n == Len(items)
            similarity_term == (((SumOver(items, "similarity") * 1000) \div n) * 4) \div 10
            quality_term == ((SumOver(items, "quality_score") * 100000) \div n) \div 10
            length_term == (Min(1000000, (text.length * 1000000) \div 500) * 3) \div 10
            citation_term == IF text.cites THEN 100000 ELSE 0
            confidence == similarity_term + quality_term + length_term + citation_term
        IN  /\ quality_term <= 100000
            /\ turns[p].response.confidence = Min(950000, Max(100000, confidence))
            /\ turns[p].response.confidence >= 100000
            /\ turns[p].response.confidence <= 950000

(* C12: every turn in which the provider produced a response, with or without *)
(* retrieved context, appends exactly the user message followed by the        *)
(* generated response to the memory of the turn's conversation id.            *)
C12_SuccessfulTurnAppends ==
    [][\A p \in ChatTasks :
          (turns[p].pc = "generate" /\ turns'[p].pc = "respond" /\ ~turns'[p].llm_failed) =>
              LET id == turns[p].conversation_id
              IN  /\ id \in DOMAIN conversation_memories'
                  /\ conversation_memories'[id] =
                        MemoryOf(id) \o <<HumanMessage(turns[p].query),
                                          AIMessage(turns'[p].response.response)>>]_vars

(* the turns in flight whose conversation id process_chat_request generated *)
GeneratedTurns == {p \in ChatTasks : turns[p].pc # "idle" /\ turns[p].conversation_id.name = "chat"}

(* C13: under any interleaving of chat requests a step of one turn changes the *)
(* memory of no conversation but its own, and two requests that carried no     *)
(* conversation_id never share one generated id, hence never one memory.       *)
C13_ConversationsIndependent ==
    [][/\ \A p \in ChatTasks : turns'[p] # turns[p] /\ turns'[p].pc # "idle" =>
              \A id \in DOMAIN conversation_memories :
                  id # turns'[p].conversation_id =>
                      /\ id \in DOMAIN conversation_memories'
                      /\ conversation_memories'[id] = conversation_memories[id]
       /\ \A p, q \in GeneratedTurns' :
              p # q => turns'[p].conversation_id # turns'[q].conversation_id]_vars

(* C21: in GENERATE the providers are tried in a fixed order: when the first *)
(* provider's call fails a second provider is called with the same messages, *)
(* and the deterministic fallback text is produced only after the second     *)
(* provider has failed too.                                                  *)
C21_SecondProviderBeforeFallback ==
    \A p \in ChatTasks : Responding(p) =>
        LET invoked == turns[p].invoked
        IN  /\ invoked[1].provider = llm
            /\ turns[p].llm_failed =>
                  /\ Len(invoked) >= 2
                  /\ invoked[2].provider # invoked[1].provider
                  /\ invoked[2].system = invoked[1].system
                  /\ invoked[2].chat_history = invoked[1].chat_history
                  /\ invoked[2].context = invoked[1].context
                  /\ invoked[2].question = invoked[1].question

(* the context-selection score similarity*0.7 + (quality/10)*0.3, in 1/10000 *)
ContextScore(similarity, quality_score) == similarity * 7 + quality_score * 300

(* the turns that hold the context handed to GENERATE *)
HoldsContext(p) == turns[p].pc \in {"generate", "respond"}

(* C22: the context items handed to GENERATE are in descending order of the   *)
(* context-selection score similarity*0.7 + normalized quality*0.3, and the   *)
(* cut to max_context_items comes after that ordering: no candidate that was  *)
(* cut off scores higher than an item that was kept.                          *)
C22_ContextOrderedByScore ==
    \A p \in ChatTasks : HoldsContext(p) /\ turns[p].context_items # <<>> =>
        LET items == turns[p].context_items
            q == EmbeddingOf(turns[p].query)
            Score(i) == ContextScore(items[i].similarity, items[i].quality_score)
            kept == {items[i].id : i \in 1..Len(items)}
        IN  /\ \A i, j \in 1..Len(items) : i < j => Score(i) >= Score(j)
            /\ \A k \in 1..Len(store) :
                  LET similarity == cosine_similarity(q, store[k].embedding)
                  IN  (/\ store[k].id \notin kept
                       /\ ValidRowEmbedding(store[k].embedding)
                       /\ Above(similarity, default_threshold)) =>
                          \A i \in 1..Len(items) :
                              Score(i) >= ContextScore(Round3(similarity),
                                                       store[k].quality_score)

(* C23: after any number of turns, and for any length of conversation_history *)
(* in the request, the history put before the question in the provider prompt *)
(* holds at most the 6 most recent turns (12 messages, a turn being a user    *)
(* message and its answer).                                                   *)
C23_PromptHistoryBounded ==
    \A p \in ChatTasks : Responding(p) =>
        \A i \in 1..Len(turns[p].invoked) :
            Len(turns[p].invoked[i].chat_history) <= 2 * 6

(* C28: a request with a non-empty conversation_history has the stored memory *)
(* of its conversation id discarded and replaced, before retrieval and        *)
(* generation, by exactly the supplied user and assistant messages in their   *)
(* order, system messages dropped; with an empty conversation_history the     *)
(* stored memory is left as it was at the start of the turn.                  *)
C28_HistoryReplacesMemory ==
    [][\A p \in ChatTasks : (turns[p].pc = "idle" /\ turns'[p].pc # "idle") =>
          LET id == turns'[p].conversation_id
              Spoken(m) == m.role \in {"user", "assistant"}
              supplied == SelectSeq(turns'[p].conversation_history, Spoken)
          IN  /\ turns'[p].pc \in {"retrieve", "generate"}
              /\ id \in DOMAIN conversation_memories'
              /\ IF turns'[p].conversation_history # <<>>
                 THEN /\ Len(conversation_memories'[id]) = Len(supplied)
                      /\ \A i \in 1..Len(supplied) :
                            /\ conversation_memories'[id][i].content = supplied[i].content
                            /\ conversation_memories'[id][i].role =
                                  IF supplied[i].role = "user" THEN "human" ELSE "ai"
                 ELSE conversation_memories'[id] = MemoryOf(id)]_vars

C28_Witness ==
    \E p, q \in ChatTasks :
        /\ turns[p].pc = "retrieve" /\ turns[p].conversation_history # <<>>
        /\ Grounded(q) /\ turns[q].conversation_id = turns[p].conversation_id
        /\ Len(MemoryOf(turns[p].conversation_id)) = 14
        /\ \E i \in 1..Len(turns[p].conversation_history) :
              turns[p].conversation_history[i].role = "system"

(* the turns that a step completes with an answer grounded in context *)
Completing(p, id) ==
    /\ turns[p].pc = "generate" /\ turns'[p].pc = "respond"
    /\ turns[p].conversation_id = id
    /\ turns[p].context_items # <<>> /\ ~turns'[p].llm_failed

(* the turns that a step receives with a conversation_history *)
ReceivingHistory(p, id) ==
    /\ turns[p].pc = "idle" /\ turns'[p].pc # "idle"
    /\ turns'[p].conversation_id = id
    /\ turns'[p].conversation_history # <<>>

(* C29: under any interleaving of concurrent turns on one conversation id,   *)
(* none carrying conversation_history, the stored memory grows only by whole *)
(* pairs: each completing context-grounded turn appends its user message and *)
(* right after it its response, in completion order, and no other step       *)
(* changes the memory, so no pair is ever split by another turn's messages.  *)
C29_PairsNeverInterleaved ==
    [][\A id \in DOMAIN conversation_memories' :
          (\A p \in ChatTasks : ~ReceivingHistory(p, id)) =>
              IF \E p \in ChatTasks : Completing(p, id)
              THEN \E p \in ChatTasks :
                      /\ Completing(p, id)
                      /\ conversation_memories'[id] =
                            MemoryOf(id) \o <<HumanMessage(turns[p].query),
                                              AIMessage(turns'[p].response.response)>>
              ELSE conversation_memories'[id] = MemoryOf(id)]_vars

C29_Witness ==
    \E p, q \in ChatTasks :
        /\ p # q /\ Grounded(p) /\ Grounded(q)
        /\ turns[p].conversation_id = turns[q].conversation_id
        /\ turns[p].invoked[1].chat_history = <<>>
        /\ turns[q].invoked[1].chat_history = <<>>
        /\ turns[p].response.response # turns[q].response.response
        /\ MemoryOf(turns[p].conversation_id) =
              <<HumanMessage(turns[p].query), AIMessage(turns[p].response.response),
                HumanMessage(turns[q].query), AIMessage(turns[q].response.response)>>

(* C27: every chat turn eventually reaches RESPOND, also when the embedding *)
(* provider, the vector store or the answer-generation provider never       *)
(* answers: the pending call is abandoned on timeout and the turn falls     *)
(* through to the next fallback instead of waiting forever.                 *)
C27_TurnEventuallyResponds ==
    (turns[1].pc # "idle") ~> (turns[1].pc = "respond")

-----------------------------------------------------------------------------
(* Claims about the similarity values, checked under SpecSearch *)

(* C19: every similarity reported by semantic_search and get_related_content *)
(* lies in [0, 1], for every corpus, query vector and threshold.             *)
C19_SimilarityInUnitInterval ==
    \A i \in 1..Len(result.rows) :
        result.rows[i].similarity >= 0 /\ result.rows[i].similarity <= 1000

(* C20: in the full scan the similarity of a row is dot(a,b) / (|a| * |b|)   *)
(* when both norms are non-zero and 0 when either is zero; a row compared    *)
(* with or against a zero vector is returned only when the threshold is <= 0. *)
C20_ZeroNormIsZeroSimilarity ==
    result.path = "fallback" =>
        \A i \in 1..Len(result.rows) :
            LET q == IF IsSearch THEN QueryEmbedding ELSE SourceEmbedding
                e == StoreRow(result.rows[i].id).embedding
            IN  IF Norm(q) = 0 \/ Norm(e) = 0
                THEN /\ result.rows[i].similarity = 0
                     /\ IsSearch /\ call.threshold <= 0
                ELSE result.rows[i].similarity = Round3(Rat(Dot(q, e), Norm(q) * Norm(e)))

C20_Witness ==
    /\ IsSearch /\ result.path = "fallback" /\ call.threshold = 0
    /\ Norm(QueryEmbedding) # 0
    /\ \E i \in 1..Len(result.rows) :
          /\ StoreRow(result.rows[i].id).embedding = ZeroVector(target_dimension)
          /\ result.rows[i].similarity = 0
    /\ \E i \in 1..Len(result.rows) : result.rows[i].similarity = 1000

-----------------------------------------------------------------------------
(* The Graph Builder: analyze_content_network, the GraphML export and *)
(* SimpleVectorDB.export_data over the stored items' key_topics       *)

MaxNodes == 4

max_key_topics == 3

min_community_size == 3

(* 'key_topics': parsed.get('key_topics', ['General'])[:3] and topics[:3] *)
KeyTopics_uncut(topics) == topics

KeyTopics(topics) == Take(topics, max_key_topics)

(* <<content_type, quality_score, topics named by the LLM>> of a stored item *)
ItemValues ==
    {<<"Article", 5, <<"ai", "ml">>>>,
     <<"Article", 8, <<"ai", "python">>>>,
     <<"Tutorial", 9, <<"ml", "python", "ai", "data">>>>,
     <<"Article", 8, <<"python">>>>,
     <<"Article", 8, <<"js", "css", "python", "html">>>>,
     <<"Article", 8, <<>>>>}

(* the days between a row's visit_timestamp and the request: the items of a *)
(* corpus were visited 15 days apart, the first one today                   *)
VisitAge(i) == 15 * (i - 1)

TopicRow(i, v) ==
    [id |-> i, url |-> i, title |-> i, quality_score |-> v[2], embedding |-> NoEmbedding,
     content_type |-> v[1], key_topics |-> KeyTopics(v[3]),
     visit_timestamp |-> VisitAge(i)]

(* corpora of 5 items of which exactly 3 name the topic python: in any position, *)
(* and as the first topic of each                                               *)
TopicScenarios ==
    {<<<<"Article", 8, <<"ai", "python">>>>, <<"Article", 8, <<"python">>>>,
       <<"Article", 8, <<"js", "css", "python", "html">>>>,
       <<"Article", 8, <<>>>>, <<"Tutorial", 9, <<>>>>>>,
     <<<<"Article", 8, <<"python">>>>, <<"Tutorial", 9, <<"python", "ai">>>>,
       <<"Article", 8, <<"python", "js">>>>,
       <<"Article", 8, <<"go">>>>, <<"Article", 8, <<>>>>>>}

TopicCorpora ==
    UNION {{[i \in 1..n |-> TopicRow(i, f[i])] : f \in [1..n -> ItemValues]} : n \in 0..MaxNodes}
    \cup {[i \in 1..Len(vs) |-> TopicRow(i, vs[i])] : vs \in TopicScenarios}

(* set(item.get('key_topics', [])) *)
TopicSet(item) == Range(item.key_topics)

(* for i, item1 in enumerate(data): for j, item2 in enumerate(data[i+1:], i+1) *)
PairsOf(n) ==
    LET all == [k \in 1..(n * n) |-> <<((k - 1) \div n) + 1, ((k - 1) % n) + 1>>]
        Ordered(pair) == pair[1] < pair[2]
    IN  SelectSeq(all, Ordered)

(* similarity = overlap / total_topics; if similarity >= 0.2 *)
MeetsMinimumSimilarity(overlap, total_topics) == overlap * 10 >= 2 * total_topics

(* the edge analyze_content_network appends: its weight is the similarity *)
NetworkEdge(item1, item2) ==
    [source |-> item1.id, target |-> item2.id,
     weight |-> Rat(Cardinality(TopicSet(item1) \cap TopicSet(item2)),
                    Cardinality(TopicSet(item1) \cup TopicSet(item2))),
     shared_topics |-> TopicSet(item1) \cap TopicSet(item2)]

NetworkEdges(content_data) ==
    LET Linked(pair) ==
            LET topics1 == TopicSet(content_data[pair[1]])
                topics2 == TopicSet(content_data[pair[2]])
                overlap == Cardinality(topics1 \cap topics2)
                total_topics == Cardinality(topics1 \cup topics2)
            IN  overlap > 0 /\ total_topics > 0 /\ MeetsMinimumSimilarity(overlap, total_topics)
        linked == SelectSeq(PairsOf(Len(content_data)), Linked)
    IN  [k \in 1..Len(linked) |->
            NetworkEdge(content_data[linked[k][1]], content_data[linked[k][2]])]

RECURSIVE Neighbors_outgoing(_, _)
Neighbors_outgoing(edges, node_id) ==
    IF edges = <<>> THEN <<>>
    ELSE (IF Head(edges).source = node_id THEN <<Head(edges).target>> ELSE <<>>)
         \o Neighbors_outgoing(Tail(edges), node_id)

(* adjacency[node_id]: the other ends of the node's edges, in the order appended *)
RECURSIVE Neighbors(_, _)
Neighbors(edges, node_id) ==
    IF edges = <<>> THEN <<>>
    ELSE (IF Head(edges).source = node_id THEN <<Head(edges).target>>
          ELSE IF Head(edges).target = node_id THEN <<Head(edges).source>>
          ELSE <<>>) \o Neighbors(Tail(edges), node_id)

(* dfs(node_id, component) with the shared visited set; walk is the pair of both *)
RECURSIVE dfs(_, _, _)
RECURSIVE dfs_neighbors(_, _, _)
dfs(edges, node_id, walk) ==
    IF node_id \in walk.visited THEN walk
    ELSE dfs_neighbors(edges, Neighbors(edges, node_id),
                       [visited |-> walk.visited \cup {node_id},
                        component |-> Append(walk.component, node_id)])

dfs_neighbors(edges, neighbors, walk) ==
    IF neighbors = <<>> THEN walk
    ELSE dfs_neighbors(edges, Tail(neighbors), dfs(edges, Head(neighbors), walk))

(* for node_id in nodes: if node_id not in visited: ... components.append(component) *)
RECURSIVE ComponentsFrom(_, _, _)
ComponentsFrom(edges, node_ids, visited) ==
    IF node_ids = <<>> THEN <<>>
    ELSE IF Head(node_ids) \in visited THEN ComponentsFrom(edges, Tail(node_ids), visited)
    ELSE LET walk == dfs(edges, Head(node_ids), [visited |-> visited, component |-> <<>>])
         IN  <<walk.component>> \o ComponentsFrom(edges, Tail(node_ids), walk.visited)

Communities_of_two(components) ==
    LET Large(i) == Len(components[i]) >= min_community_size - 1
        numbers == SelectSeq([i \in 1..Len(components) |-> i], Large)
    IN  [k \in 1..Len(numbers) |->
            [id |-> numbers[k] - 1, size |-> Len(components[numbers[k]]),
             nodes |-> components[numbers[k]]]]

(* the communities: the components of at least 3 nodes, numbered by component *)
Communities(components) ==
    LET Large(i) == Len(components[i]) >= min_community_size
        numbers == SelectSeq([i \in 1..Len(components) |-> i], Large)
    IN  [k \in 1..Len(numbers) |->
            [id |-> numbers[k] - 1, size |-> Len(components[numbers[k]]),
             nodes |-> components[numbers[k]]]]

GraphRaised(p) ==
    [outcome |-> "raised", path |-> p, rows |-> <<>>, edges |-> <<>>,
     components |-> <<>>, communities |-> <<>>]

GraphReturned(p, edges, components, communities) ==
    [outcome |-> "returned", path |-> p, rows |-> <<>>, edges |-> edges,
     components |-> components, communities |-> communities]

(* analyze_content_network; edges is the list built, of which the response    *)
(* carries edges[:100], more than any corpus here has; the characteristics of *)
(* a community and the degree statistics are left out                         *)
analyze_content_network(rows, fetch_fails) ==
    LET content_data == rows
        edges == NetworkEdges(content_data)
        components == ComponentsFrom(edges, [i \in 1..Len(content_data) |-> content_data[i].id], {})
    IN  IF fetch_fails THEN GraphRaised("network_failed")
        ELSE IF Len(content_data) < 2 THEN GraphReturned("not_enough", <<>>, <<>>, <<>>)
        ELSE GraphReturned("network", edges, components, Communities(components))

(* the graphml branch of export_in_multiple_formats: an edge per pair with a *)
(* shared topic, its weight the overlap                                      *)
GraphmlEdge(item1, item2) ==
    [source |-> item1.id, target |-> item2.id,
     weight |-> Rat(Cardinality(TopicSet(item1) \cap TopicSet(item2)), 1),
     shared_topics |-> TopicSet(item1) \cap TopicSet(item2)]

export_in_multiple_formats(rows, format_type, fetch_fails) ==
    LET data == rows
        Linked(pair) == TopicSet(data[pair[1]]) \cap TopicSet(data[pair[2]]) # {}
        linked == SelectSeq(PairsOf(Len(data)), Linked)
        edges == [k \in 1..Len(linked) |-> GraphmlEdge(data[linked[k][1]], data[linked[k][2]])]
    IN  IF fetch_fails THEN GraphRaised("export_failed")
        ELSE IF format_type \in {"json", "csv"} THEN GraphReturned(format_type, <<>>, <<>>, <<>>)
        ELSE IF format_type = "graphml" THEN GraphReturned("graphml", edges, <<>>, <<>>)
        ELSE GraphRaised("unsupported_format")

(* SimpleVectorDB.export_data: an edge per pair with a shared topic, without weight *)
ExportEdge(node1, node2) ==
    [source |-> node1.id, target |-> node2.id,
     shared_topics |-> TopicSet(node1) \cap TopicSet(node2)]

export_data(rows, fetch_fails) ==
    LET nodes == rows
        Linked(pair) == Cardinality(TopicSet(nodes[pair[1]]) \cap TopicSet(nodes[pair[2]])) >= 1
        linked == SelectSeq(PairsOf(Len(nodes)), Linked)
        edges == [k \in 1..Len(linked) |-> ExportEdge(nodes[linked[k][1]], nodes[linked[k][2]])]
    IN  IF fetch_fails THEN [outcome |-> "returned", path |-> "export_data_failed", rows |-> <<>>,
                             edges |-> <<>>, components |-> <<>>, communities |-> <<>>]
        ELSE GraphReturned("export_data", edges, <<>>, <<>>)

AnalyzeContentNetwork ==
    /\ call = NoCall
    /\ \E fetch_fails \in BOOLEAN :
          /\ call' = [op |-> "analyze_content_network", fetch_fails |-> fetch_fails]
          /\ result' = analyze_content_network(store, fetch_fails)
    /\ UNCHANGED <<storeVars, deployVars, ingest, chatVars>>

ExportFormats == {"json", "csv", "graphml", "xml"}

ExportInMultipleFormats ==
    /\ call = NoCall
    /\ \E format_type \in ExportFormats, fetch_fails \in BOOLEAN :
          /\ call' = [op |-> "export_in_multiple_formats", format_type |-> format_type,
                      fetch_fails |-> fetch_fails]
          /\ result' = export_in_multiple_formats(store, format_type, fetch_fails)
    /\ UNCHANGED <<storeVars, deployVars, ingest, chatVars>>

ExportData ==
    /\ call = NoCall
    /\ \E fetch_fails \in BOOLEAN :
          /\ call' = [op |-> "export_data", fetch_fails |-> fetch_fails]
          /\ result' = export_data(store, fetch_fails)
    /\ UNCHANGED <<storeVars, deployVars, ingest, chatVars>>

-----------------------------------------------------------------------------
(* SimpleVectorDB.get_topic_clusters and get_personalized_recommendations *)

min_cluster_size == 2

default_min_quality == 6

default_limit == 10

default_diversity_factor == 300

(* list.sort(key=lambda x: x[field], reverse=True): stable, descending *)
SortByFieldDesc(s, field) ==
    LET n == Len(s)
        Rank(i) == 1 + Cardinality({j \in 1..n :
                        \/ s[j][field] > s[i][field]
                        \/ (s[j][field] = s[i][field] /\ j < i)})
    IN  [p \in 1..n |-> s[CHOOSE i \in 1..n : Rank(i) = p]]

NoType == ""

ClustersReturned(p, clusters) ==
    [outcome |-> "returned", path |-> p, rows |-> <<>>, clusters |-> clusters]

(* a cluster per first topic, in the order the topics first appear; the items *)
(* of a cluster are kept here beside the content_count the code reports       *)
get_topic_clusters(rows, content_type, fetch_fails) ==
    LET OfType(item) == content_type = NoType \/ item.content_type = content_type
        data == SelectSeq(rows, OfType)
        HasTopics(item) == item.key_topics # <<>>
        grouped == SelectSeq(data, HasTopics)
        IsNew(i) == \A j \in 1..(i - 1) : grouped[j].key_topics[1] # grouped[i].key_topics[1]
        firsts == SelectSeq([i \in 1..Len(grouped) |-> i], IsNew)
        Cluster(cluster_id) ==
            LET topic == grouped[firsts[cluster_id]].key_topics[1]
                InCluster(item) == item.key_topics[1] = topic
                items == SelectSeq(grouped, InCluster)
            IN  [id |-> cluster_id, topic |-> topic, content_count |-> Len(items),
                 items |-> [i \in 1..Len(items) |-> items[i].id],
                 content_types |-> {items[i].content_type : i \in 1..Len(items)}]
        all == [cluster_id \in 1..Len(firsts) |-> Cluster(cluster_id)]
        Reported(cluster) == cluster.content_count >= min_cluster_size
    IN  IF fetch_fails THEN ClustersReturned("clusters_failed", <<>>)
        ELSE IF data = <<>> THEN ClustersReturned("clusters_no_data", <<>>)
        ELSE ClustersReturned("clusters", SortByFieldDesc(SelectSeq(all, Reported), "content_count"))

(* round(x, 1) of a quotient: nearest tenth, ties to even *)
Round1(total, count) ==
    LET n == total * 10
        q == n \div count
        m == n % count
    IN  IF 2 * m < count THEN q
        ELSE IF 2 * m > count THEN q + 1
        ELSE IF q % 2 = 0 THEN q ELSE q + 1

RECURSIVE AllTopicsOf(_)
AllTopicsOf(items) ==
    IF items = <<>> THEN <<>> ELSE Head(items).key_topics \o AllTopicsOf(Tail(items))

(* topic_frequency of a group: a count per topic, in the order the topics came *)
TopicFrequency(items) ==
    LET named == AllTopicsOf(items)
        IsNew(i) == \A j \in 1..(i - 1) : named[j] # named[i]
        firsts == SelectSeq([i \in 1..Len(named) |-> i], IsNew)
    IN  [k \in 1..Len(firsts) |->
            [topic |-> named[firsts[k]],
             count |-> Cardinality({i \in 1..Len(named) : named[i] = named[firsts[k]]})]]

ClusterItems_all(rows, content_type) == rows

(* type_clusters[content_type]['items'] *)
ClusterItems(rows, content_type) ==
    LET OfType(item) == item.content_type = content_type
    IN  SelectSeq(rows, OfType)

(* clusters.sort(key=lambda x: (x['average_quality'], x['content_count']), reverse=True) *)
SortClustersDesc(s) ==
    LET n == Len(s)
        Before(a, b) == \/ a.average_quality > b.average_quality
                        \/ /\ a.average_quality = b.average_quality
                           /\ a.content_count > b.content_count
        Rank(i) == 1 + Cardinality({j \in 1..n :
                        Before(s[j], s[i]) \/ (~Before(s[i], s[j]) /\ j < i)})
    IN  [p \in 1..n |-> s[CHOOSE i \in 1..n : Rank(i) = p]]

(* SimpleVectorDB.cluster_content: a cluster per content_type, numbered in the *)
(* order the types first appear; average_quality in tenths                     *)
cluster_content(rows, fetch_fails) ==
    LET IsNew(i) == \A j \in 1..(i - 1) : rows[j].content_type # rows[i].content_type
        firsts == SelectSeq([i \in 1..Len(rows) |-> i], IsNew)
        Cluster(cluster_id) ==
            LET content_type == rows[firsts[cluster_id]].content_type
                items == ClusterItems(rows, content_type)
                item_count == Len(items)
                top_topics == Take(SortByFieldDesc(TopicFrequency(items), "count"), 3)
                qualities == {items[i].quality_score : i \in 1..Len(items)}
            IN  [id |-> cluster_id, content_count |-> item_count,
                 content_type |-> content_type,
                 average_quality |-> Round1(SumOver(items, "quality_score"), item_count),
                 top_topics |-> [k \in 1..Len(top_topics) |-> top_topics[k].topic],
                 quality_range |->
                    [min |-> CHOOSE q \in qualities : \A r \in qualities : q <= r,
                     max |-> CHOOSE q \in qualities : \A r \in qualities : q >= r]]
    IN  IF fetch_fails THEN ClustersReturned("type_clusters_failed", <<>>)
        ELSE IF rows = <<>> THEN ClustersReturned("type_clusters_no_data", <<>>)
        ELSE ClustersReturned("type_clusters",
                SortClustersDesc([cluster_id \in 1..Len(firsts) |-> Cluster(cluster_id)]))

(* the columns the recommendations query selects; visit_timestamp is not one *)
RecommendationColumns(row) ==
    [id |-> row.id, title |-> row.title, content_type |-> row.content_type,
     key_topics |-> row.key_topics, quality_score |-> row.quality_score,
     url |-> row.url, embedding |-> row.embedding]

(* max(0, 1 - days_old / 30), in thousandths *)
RecencyBonus(days_old) == Max(0, 1000 - (days_old * 1000) \div 30)

(* score = quality_score * 0.4 + topic_overlap * 2 + 1 for an allowed type, in *)
(* thousandths, plus the recency bonus of an item that has a visit_timestamp;  *)
(* item.get('visit_timestamp') is None for a dict without that key            *)
RecommendationScore(item, interest_topics, allowed_types) ==
    item.quality_score * 400
    + (IF interest_topics # {} /\ item.key_topics # <<>>
       THEN Cardinality(interest_topics \cap TopicSet(item)) * 2000 ELSE 0)
    + (IF allowed_types # {} /\ item.content_type \in allowed_types THEN 1000 ELSE 0)
    + (IF "visit_timestamp" \in DOMAIN item
       THEN RecencyBonus(item.visit_timestamp) ELSE 0)

Recommendation(item, interest_topics, allowed_types) ==
    [id |-> item.id, content_type |-> item.content_type,
     quality_score |-> item.quality_score, topics |-> item.key_topics,
     recommendation_score |-> RecommendationScore(item, interest_topics, allowed_types),
     reasons |-> {}]

(* the penalty of one item given what the pass has seen before it *)
DiversityPenalty(rec, diversity_factor, seen_types, seen_topics) ==
    (IF rec.content_type \in seen_types THEN diversity_factor ELSE 0)
    + (Cardinality(Range(rec.topics) \cap seen_topics) * diversity_factor) \div 2

RECURSIVE DiversityPass_seen_first(_, _, _, _)
DiversityPass_seen_first(recs, diversity_factor, seen_types, seen_topics) ==
    IF recs = <<>> THEN <<>>
    ELSE LET rec == Head(recs)
             types == seen_types \cup {rec.content_type}
             topics == seen_topics \cup Range(rec.topics)
             penalty == DiversityPenalty(rec, diversity_factor, types, topics)
         IN  <<[rec EXCEPT !.recommendation_score = @ - penalty]>>
             \o DiversityPass_seen_first(Tail(recs), diversity_factor, types, topics)

(* one pass over the sorted list; the seen sets grow after each item is scored *)
RECURSIVE DiversityPass(_, _, _, _)
DiversityPass(recs, diversity_factor, seen_types, seen_topics) ==
    IF recs = <<>> THEN <<>>
    ELSE LET rec == Head(recs)
             penalty == DiversityPenalty(rec, diversity_factor, seen_types, seen_topics)
         IN  <<[rec EXCEPT !.recommendation_score = @ - penalty]>>
             \o DiversityPass(Tail(recs), diversity_factor,
                              seen_types \cup {rec.content_type},
                              seen_topics \cup Range(rec.topics))

Reasons(rec, interest_topics, allowed_types) ==
    (IF rec.quality_score >= 8 THEN {"High quality content"} ELSE {})
    \cup (IF interest_topics \cap Range(rec.topics) # {} THEN {"Matches your interests"} ELSE {})
    \cup (IF rec.content_type \in allowed_types THEN {"Preferred content type"} ELSE {})

RecommendationsReturned(p, recommendations, total_available) ==
    [outcome |-> "returned", path |-> p, rows |-> <<>>,
     recommendations |-> recommendations, total_available |-> total_available]

get_personalized_recommendations(rows, interest_topics, allowed_types, min_quality, limit, diversity_factor, fetch_fails) ==
    LET GoodEnough(item) == item.quality_score >= min_quality
        selected == [i \in 1..Len(rows) |-> RecommendationColumns(rows[i])]
        fetched == SelectSeq(selected, GoodEnough)
        Allowed(item) == allowed_types = {} \/ item.content_type \in allowed_types
        content_data == SelectSeq(fetched, Allowed)
        scored == [i \in 1..Len(content_data) |->
                      Recommendation(content_data[i], interest_topics, allowed_types)]
        sorted == SortByFieldDesc(scored, "recommendation_score")
        diverse == IF diversity_factor > 0
                   THEN SortByFieldDesc(DiversityPass(sorted, diversity_factor, {}, {}),
                                        "recommendation_score")
                   ELSE sorted
        top == Take(diverse, limit)
    IN  IF fetch_fails THEN [outcome |-> "raised", path |-> "recommendations_failed", rows |-> <<>>,
                             recommendations |-> <<>>, total_available |-> 0]
        ELSE IF fetched = <<>> THEN RecommendationsReturned("recommendations_no_data", <<>>, 0)
        ELSE RecommendationsReturned("recommendations",
                [i \in 1..Len(top) |->
                    [top[i] EXCEPT !.reasons = Reasons(top[i], interest_topics, allowed_types)]],
                Len(content_data))

GetTopicClusters ==
    /\ call = NoCall
    /\ \E content_type \in {NoType, "Article"}, fetch_fails \in BOOLEAN :
          /\ call' = [op |-> "get_topic_clusters", content_type |-> content_type,
                      fetch_fails |-> fetch_fails]
          /\ result' = get_topic_clusters(store, content_type, fetch_fails)
    /\ UNCHANGED <<storeVars, deployVars, ingest, chatVars>>

ClusterContent ==
    /\ call = NoCall
    /\ \E fetch_fails \in BOOLEAN :
          /\ call' = [op |-> "cluster_content", fetch_fails |-> fetch_fails]
          /\ result' = cluster_content(store, fetch_fails)
    /\ UNCHANGED <<storeVars, deployVars, ingest, chatVars>>

GetPersonalizedRecommendations ==
    /\ call = NoCall
    /\ \E interest_topics \in {{}, {"python"}}, allowed_types \in {{}, {"Article"}},
          min_quality \in {default_min_quality}, limit \in {1, default_limit},
          diversity_factor \in {0, default_diversity_factor}, fetch_fails \in BOOLEAN :
          /\ call' = [op |-> "get_personalized_recommendations",
                      interest_topics |-> interest_topics, allowed_types |-> allowed_types,
                      min_quality |-> min_quality, limit |-> limit,
                      diversity_factor |-> diversity_factor, fetch_fails |-> fetch_fails]
          /\ result' = get_personalized_recommendations(store, interest_topics, allowed_types,
                            min_quality, limit, diversity_factor, fetch_fails)
    /\ UNCHANGED <<storeVars, deployVars, ingest, chatVars>>

InitGraph ==
    /\ store \in TopicCorpora
    /\ next_id = Len(store) + 1
    /\ ingest = [p \in 1..MaxRequests |-> Idle]
    /\ NoChat
    /\ url_unique = FALSE
    /\ openai_embedder = TRUE
    /\ call = NoCall
    /\ result = NoResult

NextGraph ==
    \/ AnalyzeContentNetwork
    \/ ExportInMultipleFormats
    \/ ExportData
    \/ GetTopicClusters
    \/ ClusterContent
    \/ GetPersonalizedRecommendations
    \/ SearchReturn

SpecGraph == InitGraph /\ [][NextGraph]_vars

-----------------------------------------------------------------------------
(* Claims about the Graph Builder, checked under SpecGraph *)

IsNetwork == call # NoCall /\ call.op = "analyze_content_network"

BuiltGraph == result.path \in {"network", "graphml", "export_data"}

Overlap(a, b) == Cardinality(TopicSet(a) \cap TopicSet(b))

EdgesBetween(a, b) ==
    {k \in 1..Len(result.edges) :
        {result.edges[k].source, result.edges[k].target} = {a.id, b.id}}

(* C14: graph construction gives every pair of items that share a topic       *)
(* exactly one edge, whose shared_topics is the intersection of the topics,   *)
(* whose weight is the overlap count and whose similarity is overlap / union. *)
C14_OneEdgePerSharingPair ==
    BuiltGraph =>
        \A i, j \in 1..Len(store) : (i < j /\ Overlap(store[i], store[j]) >= 1) =>
            /\ Cardinality(EdgesBetween(store[i], store[j])) = 1
            /\ \A k \in EdgesBetween(store[i], store[j]) :
                  LET e == result.edges[k]
                      union == Cardinality(TopicSet(store[i]) \cup TopicSet(store[j]))
                  IN  /\ e.shared_topics = TopicSet(store[i]) \cap TopicSet(store[j])
                      /\ "weight" \in DOMAIN e
                      /\ e.weight.num = Overlap(store[i], store[j]) * e.weight.den
                      /\ "similarity" \in DOMAIN e
                      /\ e.similarity.num * union = Overlap(store[i], store[j]) * e.similarity.den

Linked(a, b) == \E k \in 1..Len(result.edges) :
    {result.edges[k].source, result.edges[k].target} = {a, b}

RECURSIVE ReachableFrom(_)
ReachableFrom(ids) ==
    LET more == ids \cup {b \in 1..Len(store) : \E a \in ids : Linked(a, b)}
    IN  IF more = ids THEN ids ELSE ReachableFrom(more)

ComponentsWith(id) ==
    {<<c, k>> \in (1..Len(result.components)) \X (1..Len(store)) :
        k <= Len(result.components[c]) /\ result.components[c][k] = id}

SameComponent(a, b) ==
    \E c \in 1..Len(result.components) :
        {a, b} \subseteq Range(result.components[c])

Partitioned ==
    /\ \A id \in 1..Len(store) : Cardinality(ComponentsWith(id)) = 1
    /\ \A c \in 1..Len(result.components) :
          Range(result.components[c]) \subseteq 1..Len(store)
    /\ \A a \in 1..Len(store) :
          (\A b \in 1..Len(store) : ~Linked(a, b)) =>
              \E c \in 1..Len(result.components) : result.components[c] = <<a>>
    /\ \A a, b \in 1..Len(store) : SameComponent(a, b) <=> (b \in ReachableFrom({a}))

(* C16 as stated: the components analyze_content_network computes partition  *)
(* the item set: every item is in exactly one component, an item without edge *)
(* is a singleton, and two items share a component exactly when a path of     *)
(* edges connects them.                                                       *)
C16_ComponentsPartition ==
    (IsNetwork /\ result.outcome = "returned") => Partitioned

(* C16 as amended: the same, for a corpus of at least two items; with fewer *)
(* the analysis returns early and computes no component.                    *)
C16_ComponentsPartitionOfTwoOrMore ==
    (IsNetwork /\ result.outcome = "returned") =>
        IF Len(store) >= 2 THEN Partitioned
        ELSE result.path = "not_enough" /\ result.components = <<>>

C16_Witness ==
    /\ IsNetwork /\ result.path = "network"
    /\ Len(store) = 4
    /\ Len(result.components) = 2
    /\ \E c \in 1..2 : Len(result.components[c]) = 3
    /\ \E c \in 1..2 : Len(result.components[c]) = 1
    /\ \E a, b \in 1..4 : SameComponent(a, b) /\ ~Linked(a, b) /\ a # b
    /\ Len(result.communities) = 1

(* the connected components of the topic graph, as sets of item ids *)
ConnectedComponents == {ReachableFrom({a}) : a \in 1..Len(store)}

CommunitiesOf(ids) ==
    {k \in 1..Len(result.communities) : Range(result.communities[k].nodes) = ids}

(* C25: the communities analyze_content_network reports are exactly the     *)
(* connected components of at least 3 items: each such component is reported *)
(* once with all its node ids, and no component of 1 or 2 items and no item  *)
(* outside such a component is in any community.                             *)
C25_CommunitiesAreLargeComponents ==
    (IsNetwork /\ result.outcome = "returned") =>
        /\ \A ids \in ConnectedComponents :
              Cardinality(CommunitiesOf(ids)) = IF Cardinality(ids) >= 3 THEN 1 ELSE 0
        /\ \A k \in 1..Len(result.communities) :
              LET nodes == result.communities[k].nodes
              IN  /\ Range(nodes) \in ConnectedComponents
                  /\ Cardinality(Range(nodes)) = Len(nodes)
                  /\ result.communities[k].size = Len(nodes)
                  /\ Len(nodes) >= 3

C25_Witness ==
    /\ IsNetwork /\ result.path = "network"
    /\ Len(store) = 4
    /\ Len(result.communities) = 1
    /\ result.communities[1].size = 3
    /\ \E a \in 1..Len(store) :
          /\ {a} \in ConnectedComponents
          /\ a \notin Range(result.communities[1].nodes)

-----------------------------------------------------------------------------
(* Claims about topic clusters and the diversity pass, checked under SpecGraph *)

Naming(topic) == {i \in 1..Len(store) : topic \in TopicSet(store[i])}

AllTopics == UNION {TopicSet(store[i]) : i \in 1..Len(store)}

(* a corpus of 5 items of which exactly 3 share the topic python, and no two *)
(* share another topic                                                       *)
ThreeOfFiveSharePython ==
    /\ Len(store) = 5
    /\ Cardinality(Naming("python")) = 3
    /\ \A topic \in AllTopics \ {"python"} : Cardinality(Naming(topic)) <= 1

(* C17: over a corpus of 5 items of which exactly 3 share the topic python, *)
(* in any position of their key_topics, topic clustering returns exactly    *)
(* one cluster, of size 3, holding those three items; no group of fewer     *)
(* than 2 items is reported.                                                *)
C17_ThreePythonItemsOneCluster ==
    (result.path = "clusters" /\ call.content_type = NoType) =>
        /\ \A k \in 1..Len(result.clusters) : result.clusters[k].content_count >= 2
        /\ ThreeOfFiveSharePython =>
              /\ Len(result.clusters) = 1
              /\ result.clusters[1].content_count = 3
              /\ Range(result.clusters[1].items) = Naming("python")

IsRecommendations == result.path = "recommendations" /\ call.limit >= Len(store)

RawScore(id) ==
    RecommendationScore(RecommendationColumns(store[id]),
                        call.interest_topics, call.allowed_types)

FinalScore(id) ==
    (CHOOSE rec \in Range(result.recommendations) : rec.id = id).recommendation_score

Recommended == {result.recommendations[k].id : k \in 1..Len(result.recommendations)}

PlaceOf(id) == CHOOSE k \in 1..Len(result.recommendations) : result.recommendations[k].id = id

(* the order of the pass: by descending raw score, equal scores in store order *)
SeenBefore(a, b) == RawScore(a) > RawScore(b) \/ (RawScore(a) = RawScore(b) /\ a < b)

EarlierSeen(id) == {a \in Recommended : SeenBefore(a, id)}

PenaltyOf(id) ==
    (IF \E a \in EarlierSeen(id) : store[a].content_type = store[id].content_type
     THEN call.diversity_factor ELSE 0)
    + (Cardinality(TopicSet(store[id]) \cap UNION {TopicSet(store[a]) : a \in EarlierSeen(id)})
          * call.diversity_factor) \div 2

PassAsDescribed ==
    \A id \in Recommended :
        /\ EarlierSeen(id) = {} => FinalScore(id) = RawScore(id)
        /\ FinalScore(id) = RawScore(id) - PenaltyOf(id)

EqualScoreSameType(a, b) ==
    /\ SeenBefore(a, b)
    /\ RawScore(a) = RawScore(b)
    /\ store[a].content_type = store[b].content_type

(* C18 as stated: the first item of the pass is never penalized; an item loses *)
(* diversity_factor when its content_type was already seen, plus               *)
(* diversity_factor * 0.5 per topic already seen; so of two equal-score items  *)
(* of the same content_type the second-seen one ends with a lower score and    *)
(* ranks after the first after the re-sort.                                    *)
C18_SecondSeenRanksAfter ==
    (IsRecommendations /\ call.diversity_factor > 0) =>
        /\ PassAsDescribed
        /\ \A a, b \in Recommended : EqualScoreSameType(a, b) =>
              FinalScore(b) < FinalScore(a) /\ PlaceOf(b) > PlaceOf(a)

(* C18 as amended: the pass is as described; of two equal-score items of the *)
(* same content_type the second-seen one is penalized, and it ends lower and *)
(* ranks after the first-seen one exactly when its penalty is the greater of *)
(* the two, as it is whenever the first-seen one heads the list.             *)
C18_SecondSeenPenalized ==
    (IsRecommendations /\ call.diversity_factor > 0) =>
        /\ PassAsDescribed
        /\ \A a, b \in Recommended : EqualScoreSameType(a, b) =>
              /\ PenaltyOf(b) >= call.diversity_factor
              /\ FinalScore(b) < FinalScore(a) <=> PenaltyOf(b) > PenaltyOf(a)
              /\ PlaceOf(b) > PlaceOf(a) <=> PenaltyOf(b) >= PenaltyOf(a)
              /\ EarlierSeen(a) = {} =>
                    (FinalScore(b) < FinalScore(a) /\ PlaceOf(b) > PlaceOf(a))

C18_Witness ==
    /\ IsRecommendations /\ call.diversity_factor = default_diversity_factor
    /\ Len(result.recommendations) = 3
    /\ \E a, b \in Recommended :
          /\ EqualScoreSameType(a, b) /\ EarlierSeen(a) = {}
          /\ FinalScore(a) = RawScore(a)
          /\ FinalScore(b) = RawScore(b) - 450
          /\ PlaceOf(a) = 1 /\ PlaceOf(b) = 3

(* C24: before the diversity pass the score of every candidate is             *)
(* quality_score*0.4 + 2 per requested topic the item has + the preferred-    *)
(* type bonus when its type is in the allow-list + the recency bonus          *)
(* max(0, 1 - days_since_visit/30); so of two otherwise identical items the   *)
(* one visited more recently, within 30 days, scores strictly higher.         *)
C24_ScoreIncludesRecency ==
    (result.path = "recommendations" /\ call.diversity_factor = 0) =>
        LET recs == result.recommendations
            Score(k) == recs[k].recommendation_score
            ItemOf(k) == store[recs[k].id]
        IN  /\ \A k \in 1..Len(recs) :
                  Score(k) = ItemOf(k).quality_score * 400
                             + 2000 * Cardinality(call.interest_topics \cap TopicSet(ItemOf(k)))
                             + (IF ItemOf(k).content_type \in call.allowed_types
                                THEN 1000 ELSE 0)
                             + RecencyBonus(ItemOf(k).visit_timestamp)
            /\ \A a, b \in 1..Len(recs) :
                  (/\ ItemOf(a).quality_score = ItemOf(b).quality_score
                   /\ ItemOf(a).content_type = ItemOf(b).content_type
                   /\ ItemOf(a).key_topics = ItemOf(b).key_topics
                   /\ ItemOf(a).visit_timestamp < ItemOf(b).visit_timestamp
                   /\ ItemOf(a).visit_timestamp < 30) => Score(a) > Score(b)

-----------------------------------------------------------------------------
(* Claims about get_related_content, checked under SpecSearch *)

NoUsableSource ==
    \/ \A r \in Range(store) : r.id # call.content_id
    \/ ~HasEmbedding(StoreRow(call.content_id))

(* C30: get_related_content(content_id, limit) never has the source item in   *)
(* its result and never returns more than limit items, on the server-side     *)
(* path and on the full scan, and returns an empty list when the source item  *)
(* does not exist or has no embedding. A limit below 0 is read as a limit of  *)
(* no items.                                                                  *)
C30_NoSourceAtMostLimit ==
    IsRelated =>
        /\ \A i \in 1..Len(result.rows) : result.rows[i].id # call.content_id
        /\ Len(result.rows) <= Max(call.limit, 0)
        /\ NoUsableSource => (result.outcome = "returned" /\ result.rows = <<>>)

(* What holds of C30: the same with the bound on the number of items for a *)
(* limit of 0 or more; for a limit below 0 the full scan cuts only the     *)
(* last -limit items off its result.                                       *)
C30_NoSourceAtMostLimitFromZero ==
    IsRelated =>
        /\ \A i \in 1..Len(result.rows) : result.rows[i].id # call.content_id
        /\ call.limit >= 0 => Len(result.rows) <= call.limit
        /\ NoUsableSource => (result.outcome = "returned" /\ result.rows = <<>>)

C30_WithinLimit ==
    /\ IsRelated /\ result.path \in {"rpc", "fallback"}
    /\ call.limit = 1 /\ Len(result.rows) = 1
    /\ Above(cosine_similarity(SourceEmbedding, SourceEmbedding), related_threshold)
    /\ \E j, k \in 1..Len(store) :
          /\ j # k /\ j # call.content_id /\ k # call.content_id
          /\ HasEmbedding(store[j]) /\ HasEmbedding(store[k])
          /\ Above(cosine_similarity(SourceEmbedding, store[j].embedding), related_threshold)
          /\ Above(cosine_similarity(SourceEmbedding, store[k].embedding), related_threshold)

-----------------------------------------------------------------------------
(* Claims about clustering by content type, checked under SpecGraph *)

OfContentType(content_type) == {i \in 1..Len(store) : store[i].content_type = content_type}

(* how often the items of a content type name a topic *)
FrequencyIn(content_type, topic) ==
    Cardinality({<<i, k>> \in OfContentType(content_type) \X (1..max_key_topics) :
        k <= Len(store[i].key_topics) /\ store[i].key_topics[k] = topic})

TopicsIn(content_type) == UNION {TopicSet(store[i]) : i \in OfContentType(content_type)}

RECURSIVE SumCounts(_)
SumCounts(clusters) ==
    IF clusters = <<>> THEN 0 ELSE Head(clusters).content_count + SumCounts(Tail(clusters))

(* C26: cluster_content, once it has read the store, groups the items purely *)
(* by content_type: every stored item is counted in exactly one cluster, the *)
(* one of its content_type; the content_count values sum to the number of    *)
(* stored items; and the quality_range and the top_topics of a cluster come  *)
(* from that cluster's own items only.                                       *)
C26_ClustersByContentType ==
    result.path \in {"type_clusters", "type_clusters_no_data"} =>
        LET clusters == result.clusters
        IN  /\ \A i \in 1..Len(store) :
                  Cardinality({k \in 1..Len(clusters) :
                      clusters[k].content_type = store[i].content_type}) = 1
            /\ SumCounts(clusters) = Len(store)
            /\ \A k \in 1..Len(clusters) :
                  LET c == clusters[k]
                      own == OfContentType(c.content_type)
                      top == Range(c.top_topics)
                  IN  /\ c.content_count = Cardinality(own)
                      /\ own # {}
                      /\ \E i \in own : store[i].quality_score = c.quality_range.min
                      /\ \E i \in own : store[i].quality_score = c.quality_range.max
                      /\ \A i \in own : /\ store[i].quality_score >= c.quality_range.min
                                        /\ store[i].quality_score <= c.quality_range.max
                      /\ top \subseteq TopicsIn(c.content_type)
                      /\ Cardinality(top) = Len(c.top_topics)
                      /\ Len(c.top_topics) = Min(3, Cardinality(TopicsIn(c.content_type)))
                      /\ \A t \in top : \A u \in TopicsIn(c.content_type) \ top :
                            FrequencyIn(c.content_type, t) >= FrequencyIn(c.content_type, u)

C26_Witness ==
    /\ result.path = "type_clusters"
    /\ Len(store) = 4
    /\ Len(result.clusters) = 2
    /\ \E k \in 1..2 :
          /\ result.clusters[k].content_count = 3
          /\ result.clusters[k].quality_range = [min |-> 5, max |-> 8]
          /\ Len(result.clusters[k].top_topics) = 3
          /\ Cardinality(TopicsIn(result.clusters[k].content_type)) > 3
    /\ \E k \in 1..2 : \E t \in Range(result.clusters[k].top_topics) :
          \E j \in 1..2 : j # k /\ t \notin Range(result.clusters[j].top_topics)
                                /\ t \in TopicsIn(result.clusters[j].content_type)

====
